---- MODULE Spec2Model ----
(***************************************************************************)
(* A model of requests_ftp/ftp.py: the FTPAdapter transport adapter, its   *)
(* credential and endpoint extraction, its four verb handlers and the      *)
(* response builder, run against a simulated FTP backend that answers the  *)
(* way ftplib reports a server's replies.                                  *)
(*                                                                         *)
(* Strings are sequences of one-character strings, so that split, slicing  *)
(* and base64 are computed character by character as the code does.  The   *)
(* module follows the Python 2 semantics the source is written for         *)
(* (str.split on the result of b64decode, ''.join of the multipart values, *)
(* StringIO.write of the received chunks).                                 *)
(***************************************************************************)
EXTENDS Integers, Sequences, FiniteSets, TLC

(***************************************************************************)
(* Characters                                                              *)
(***************************************************************************)

\* The printable ASCII characters, code 32 (space) to 126 (~), in order; the
\* three that a TLA+ string cannot hold are written by name.
AsciiChars ==
    << " ", "!", "dquote", "#", "$", "%", "&", "'", "(", ")", "*", "+", ",", "-",
       ".", "/", "0", "1", "2", "3", "4", "5", "6", "7", "8", "9", ":", ";",
       "<", "=", ">", "?", "@", "A", "B", "C", "D", "E", "F", "G", "H", "I",
       "J", "K", "L", "M", "N", "O", "P", "Q", "R", "S", "T", "U", "V", "W",
       "X", "Y", "Z", "[", "backslash", "]", "^", "_", "backtick", "a", "b", "c", "d", "e",
       "f", "g", "h", "i", "j", "k", "l", "m", "n", "o", "p", "q", "r", "s",
       "t", "u", "v", "w", "x", "y", "z", "{", "|", "}", "~" >>

\* The base64 alphabet of RFC 3548, value 0 to 63 in order.
B64Chars ==
    << "A", "B", "C", "D", "E", "F", "G", "H", "I", "J", "K", "L", "M", "N",
       "O", "P", "Q", "R", "S", "T", "U", "V", "W", "X", "Y", "Z", "a", "b",
       "c", "d", "e", "f", "g", "h", "i", "j", "k", "l", "m", "n", "o", "p",
       "q", "r", "s", "t", "u", "v", "w", "x", "y", "z", "0", "1", "2", "3",
       "4", "5", "6", "7", "8", "9", "+", "/" >>

IndexOf(seq, c) == CHOOSE i \in 1..Len(seq) : seq[i] = c

\* ord() and chr() on the printable range.
Ord(c) == 31 + IndexOf(AsciiChars, c)
\* A byte outside the printable range is one opaque character.
Chr(n) == IF n \in 32..126 THEN AsciiChars[n - 31] ELSE "nonprintable"

Whitespace == {" ", "\t", "\n", "\r"}
Digits == <<"0", "1", "2", "3", "4", "5", "6", "7", "8", "9">>

\* The value the exception-free paths bind to a name that holds nothing.
None == [type |-> "None"]
\* A str and an int are different values even when they print alike.
PyStr(s) == [type |-> "str", val |-> s]
PyInt(n) == [type |-> "int", val |-> n]
PyTuple(t) == [type |-> "tuple", val |-> t]

(***************************************************************************)
(* str methods                                                             *)
(***************************************************************************)

\* s[i:] for 0-based i (Python slicing never raises).
SliceFrom(s, i) == IF i >= Len(s) THEN <<>> ELSE SubSeq(s, i + 1, Len(s))
\* s[:n]
Take(s, n) == IF n >= Len(s) THEN s ELSE SubSeq(s, 1, n)

RECURSIVE SkipWs(_)
SkipWs(s) == IF s # <<>> /\ Head(s) \in Whitespace THEN SkipWs(Tail(s)) ELSE s

RECURSIVE TokenLen(_)
TokenLen(s) == IF s = <<>> \/ Head(s) \in Whitespace THEN 0 ELSE 1 + TokenLen(Tail(s))

\* str.split() with no argument: the maximal runs of non-whitespace.
RECURSIVE Split(_)
Split(s) ==
    LET t == SkipWs(s) IN
    IF t = <<>> THEN <<>>
    ELSE LET n == TokenLen(t) IN <<Take(t, n)>> \o Split(SliceFrom(t, n))

\* Number of characters before the first sep (Len(s) when there is none).
RECURSIVE FindSep(_, _)
FindSep(s, sep) == IF s = <<>> \/ Head(s) = sep THEN 0 ELSE 1 + FindSep(Tail(s), sep)

\* str.split(sep): every occurrence of sep cuts, empty pieces are kept.
RECURSIVE SplitOn(_, _)
SplitOn(s, sep) ==
    LET n == FindSep(s, sep) IN
    IF n = Len(s) THEN <<s>>
    ELSE <<Take(s, n)>> \o SplitOn(SliceFrom(s, n + 1), sep)

\* ''.join(list)
RECURSIVE Join(_)
Join(list) == IF list = <<>> THEN <<>> ELSE Head(list) \o Join(Tail(list))

\* int(s) for a string of decimal digits.
RECURSIVE ParseInt(_)
ParseInt(s) ==
    IF s = <<>> THEN 0
    ELSE 10 * ParseInt(SubSeq(s, 1, Len(s) - 1)) + (IndexOf(Digits, s[Len(s)]) - 1)

IsDigits(s) == s # <<>> /\ \A i \in 1..Len(s) : \E d \in 1..10 : Digits[d] = s[i]

(***************************************************************************)
(* base64                                                                  *)
(***************************************************************************)

\* base64.b64encode: three bytes become four characters, '=' pads the tail.
RECURSIVE B64Encode(_)
B64Encode(s) ==
    IF s = <<>> THEN <<>>
    ELSE
      LET b1 == Ord(s[1])
          b2 == IF Len(s) >= 2 THEN Ord(s[2]) ELSE 0
          b3 == IF Len(s) >= 3 THEN Ord(s[3]) ELSE 0
          n  == b1 * 65536 + b2 * 256 + b3
          c1 == B64Chars[(n \div 262144) + 1]
          c2 == B64Chars[((n \div 4096) % 64) + 1]
          c3 == IF Len(s) >= 2 THEN B64Chars[((n \div 64) % 64) + 1] ELSE "="
          c4 == IF Len(s) >= 3 THEN B64Chars[(n % 64) + 1] ELSE "="
      IN <<c1, c2, c3, c4>> \o B64Encode(SliceFrom(s, 3))

IsB64Char(c) == \E i \in 1..64 : B64Chars[i] = c

\* binascii.a2b_base64 skips every character outside the alphabet and '='.
RECURSIVE B64Filter(_)
B64Filter(s) ==
    IF s = <<>> THEN <<>>
    ELSE (IF IsB64Char(Head(s)) \/ Head(s) = "=" THEN <<Head(s)>> ELSE <<>>)
         \o B64Filter(Tail(s))

B64Val(c) == IndexOf(B64Chars, c) - 1

\* The bytes of the quads of s (already filtered); the decoder stops at the
\* first padded quad.
RECURSIVE B64Quads(_)
B64Quads(s) ==
    IF Len(s) < 4 THEN <<>>
    ELSE
      LET q == SubSeq(s, 1, 4)
          v3 == IF q[3] = "=" THEN 0 ELSE B64Val(q[3])
          v4 == IF q[4] = "=" THEN 0 ELSE B64Val(q[4])
          n  == B64Val(q[1]) * 262144 + B64Val(q[2]) * 4096 + v3 * 64 + v4
          bytes == <<n \div 65536>>
                   \o (IF q[3] = "=" THEN <<>> ELSE <<(n \div 256) % 256>>)
                   \o (IF q[4] = "=" THEN <<>> ELSE <<n % 256>>)
      IN IF q[3] = "=" \/ q[4] = "=" THEN bytes
         ELSE bytes \o B64Quads(SliceFrom(s, 4))

\* Whether the filtered text is whole quads with '=' only as the tail of a quad.
RECURSIVE B64WellPadded(_)
B64WellPadded(s) ==
    IF s = <<>> THEN TRUE
    ELSE IF Len(s) < 4 THEN FALSE
    ELSE LET q == SubSeq(s, 1, 4) IN
         /\ q[1] # "=" /\ q[2] # "="
         /\ (q[3] = "=" => q[4] = "=")
         /\ (q[4] = "=" \/ B64WellPadded(SliceFrom(s, 4)))

\* base64.b64decode: the decoded str, or the TypeError ('Incorrect padding').
B64Decode(s) ==
    LET f == B64Filter(s) IN
    IF ~B64WellPadded(f) THEN [ok |-> FALSE, exc |-> "TypeError"]
    ELSE LET bytes == B64Quads(f) IN
         [ok |-> TRUE, val |-> [i \in 1..Len(bytes) |-> Chr(bytes[i])]]

(***************************************************************************)
(* Results of calls that may raise                                         *)
(***************************************************************************)

Ok(v) == [ok |-> TRUE, val |-> v]
\* An exception, with the server's reply when ftplib raised it for one.
RaiseReply(e, reply) == [ok |-> FALSE, exc |-> e, reply |-> reply]
Raise(e) == RaiseReply(e, <<>>)

(***************************************************************************)
(* Words the adapter and the wire use                                      *)
(***************************************************************************)

Basic == <<"B", "a", "s", "i", "c">>
Digest == <<"D", "i", "g", "e", "s", "t">>
LIST == <<"L", "I", "S", "T">>
NLST == <<"N", "L", "S", "T">>
RETR == <<"R", "E", "T", "R">>
STOR == <<"S", "T", "O", "R">>
GET == <<"G", "E", "T">>
CWD == <<"C", "W", "D">>
SchemeSep == <<":", "/", "/">>

(***************************************************************************)
(* get_username_password_from_header                                       *)
(***************************************************************************)

\* decoded.split(':') of lines 222-224, and the pair the function returns.
SplitCredentials(decoded) ==
    LET components == SplitOn(decoded, ":") IN
    IF Len(components) < 2 THEN Raise("IndexError")
    ELSE Ok(PyTuple(<<components[1], components[2]>>))

\* A mutation: the scheme token is not looked at.
GetAuthNoSchemeCheck(request) ==
    LET auth_header == request.headers.Authorization IN
    IF auth_header = None \/ auth_header.val = <<>> THEN Ok(None)
    ELSE
      LET encoded_components == Take(Split(auth_header.val), 2) IN
      IF Len(encoded_components) < 2 THEN Raise("IndexError")
      ELSE LET decoded == B64Decode(encoded_components[2]) IN
           IF ~decoded.ok THEN Raise(decoded.exc)
           ELSE SplitCredentials(decoded.val)

\* Ok(None) without a (non-empty) Authorization header, Ok((user, password))
\* for a Basic one, or the exception raised.
get_username_password_from_header(request) ==
    LET auth_header == request.headers.Authorization IN
    IF auth_header = None \/ auth_header.val = <<>> THEN Ok(None)
    ELSE
      LET encoded_components == Take(Split(auth_header.val), 2) IN
      IF encoded_components = <<>> THEN Raise("IndexError")
      ELSE IF encoded_components[1] # Basic THEN Raise("AuthError")
      ELSE IF Len(encoded_components) < 2 THEN Raise("IndexError")
      ELSE LET decoded == B64Decode(encoded_components[2]) IN
           IF ~decoded.ok THEN Raise(decoded.exc)
           ELSE SplitCredentials(decoded.val)

(***************************************************************************)
(* urlparse and get_host_and_path_from_url                                 *)
(***************************************************************************)

\* Index (1-based) of the first place sub occurs in s, 0 when it does not.
RECURSIVE FindSub(_, _, _)
FindSub(s, sub, from) ==
    IF from + Len(sub) - 1 > Len(s) THEN 0
    ELSE IF SubSeq(s, from, from + Len(sub) - 1) = sub THEN from
    ELSE FindSub(s, sub, from + 1)

\* Index of the last sep in s, 0 when there is none.
RECURSIVE RFind(_, _)
RFind(s, sep) ==
    IF s = <<>> THEN 0
    ELSE IF s[Len(s)] = sep THEN Len(s)
    ELSE RFind(SubSeq(s, 1, Len(s) - 1), sep)

\* urlparse(url) for scheme://netloc/path urls: the path starts at the first
\* '/' after the netloc, hostname and port come from the netloc after any
\* userinfo; a missing port is None.
urlparse(url) ==
    LET i == FindSub(url, SchemeSep, 1)
        rest == SliceFrom(url, i + 2)
        n == FindSep(rest, "/")
        netloc == Take(rest, n)
        hostinfo == SliceFrom(netloc, RFind(netloc, "@"))
        h == FindSep(hostinfo, ":")
        porttext == SliceFrom(hostinfo, h + 1)
    IN [scheme |-> Take(url, i - 1),
        path |-> SliceFrom(rest, n),
        hostname |-> Take(hostinfo, h),
        port |-> IF IsDigits(porttext) THEN PyInt(ParseInt(porttext)) ELSE None]

\* Ok([host, port, path]) with one leading '/' of the path dropped, or the
\* IndexError of path[0] on an empty path.
get_host_and_path_from_url(request) ==
    LET parsed == urlparse(request.url)
        path == parsed.path
    IN IF path = <<>> THEN Raise("IndexError")
       ELSE Ok([host |-> parsed.hostname,
                port |-> parsed.port,
                path |-> IF path[1] = "/" THEN SliceFrom(path, 1) ELSE path])

\* os.path.split (posixpath): head is everything before the last '/', with
\* its trailing slashes dropped unless it is all slashes; tail is the rest.
RECURSIVE RStripSlash(_)
RStripSlash(s) ==
    IF s # <<>> /\ s[Len(s)] = "/" THEN RStripSlash(SubSeq(s, 1, Len(s) - 1)) ELSE s

\* A mutation: the directory part is dropped and the whole path is the name.
OsPathSplitNoHead(p) == << <<>>, p >>

os_path_split(p) ==
    LET i == RFind(p, "/")
        head == Take(p, i)
        tail == SliceFrom(p, i)
    IN <<IF RStripSlash(head) = <<>> THEN head ELSE RStripSlash(head), tail>>

(***************************************************************************)
(* Buffers (StringIO, BytesIO)                                             *)
(***************************************************************************)

NewBuffer == [content |-> <<>>, pos |-> 0]

\* write(data) at the cursor, which moves past what was written.
BufWrite(buf, data) ==
    [content |-> Take(buf.content, buf.pos) \o data
                 \o SliceFrom(buf.content, buf.pos + Len(data)),
     pos |-> buf.pos + Len(data)]

BufSeek(buf, n) == [buf EXCEPT !.pos = n]

\* read() to the end, from the cursor.
BufRead(buf) == SliceFrom(buf.content, buf.pos)

\* The callback data_callback_factory(variable) returns, applied to the
\* chunks of a transfer in the order they arrive.
RECURSIVE data_callback(_, _)
data_callback(variable, chunks) ==
    IF chunks = <<>> THEN variable
    ELSE data_callback(BufWrite(variable, Head(chunks)), Tail(chunks))

(***************************************************************************)
(* parse_multipart_files                                                   *)
(***************************************************************************)

\* cgi.parse_multipart: the field names of the body's parts.
PartNames(parts) == {parts[i].name : i \in 1..Len(parts)}

\* The list of values cgi.parse_multipart gives one field, in body order.
RECURSIVE PartValues(_, _)
PartValues(parts, name) ==
    IF parts = <<>> THEN <<>>
    ELSE (IF Head(parts).name = name THEN <<Head(parts).data>> ELSE <<>>)
         \o PartValues(Tail(parts), name)

\* A mutation: the buffer is returned with its cursor after the bytes.
ParseMultipartNoRewind(request) ==
    IF request.headers.ContentType = None THEN {Raise("KeyError")}
    ELSE IF request.body.kind # "multipart" THEN {Raise("TypeError")}
    ELSE IF request.body.parts = <<>> THEN {Raise("KeyError")}
    ELSE {Ok(BufWrite(NewBuffer, Join(PartValues(request.body.parts, name)))) :
             name \in PartNames(request.body.parts)}

\* The results parse_multipart_files(request) may give: the rewound buffer
\* holding the joined values of the field dict.popitem() picks (any one of
\* them), or the exception of a request without Content-Type, without a
\* multipart body or with no part at all.
parse_multipart_files(request) ==
    IF request.headers.ContentType = None THEN {Raise("KeyError")}
    ELSE IF request.body.kind = "none" THEN {Raise("TypeError")}
    ELSE IF request.body.kind = "malformed" THEN {Raise("ValueError")}
    ELSE IF request.body.parts = <<>> THEN {Raise("KeyError")}
    ELSE {Ok(BufSeek(BufWrite(NewBuffer, Join(PartValues(request.body.parts, name))), 0)) :
             name \in PartNames(request.body.parts)}

(***************************************************************************)
(* build_response                                                          *)
(***************************************************************************)

\* dispatch_hook('response', request.hooks, response): what the hooks the
\* caller registered do is the caller's; with none, or with hooks that return
\* nothing, the response comes back as it is, and a hook may raise.
dispatch_hook(response) == {Ok(response), Raise("HookError")}

\* A mutation: the buffer is attached where the transfer left its cursor.
BuildResponseNoSeek(request, data, code, encoding) ==
    dispatch_hook([encoding |-> encoding, raw |-> data, url |-> request.url,
                   request |-> request, status_code |-> PyStr(Split(code)[1])])

\* The results build_response may give.  The status is the first token of
\* the reply as split gives it, a str; the body is rewound; the hook chain
\* runs last.
build_response(request, data, code, encoding) ==
    IF Split(code) = <<>> THEN {Raise("IndexError")}
    ELSE dispatch_hook([encoding |-> encoding,
                        raw |-> BufSeek(data, 0),
                        url |-> request.url,
                        request |-> request,
                        status_code |-> PyStr(Split(code)[1])])

build_text_response(request, data, code) ==
    build_response(request, data, code, PyStr(<<"a", "s", "c", "i", "i">>))

build_binary_response(request, data, code) ==
    build_response(request, data, code, None)

(***************************************************************************)
(* The simulated FTP backend, as ftplib reports it                         *)
(*                                                                         *)
(* ftplib returns a reply that starts with 1, 2 or 3 and raises error_temp *)
(* for a 4xx reply and error_perm for a 5xx reply (getresp); a transfer    *)
(* returns only a 2xx completion reply (voidresp).  A transport failure is *)
(* socket.error.  Every operation on a connection may meet one.            *)
(***************************************************************************)

Name_d == <<"d">>
Name_f == <<"f">>
\* The names the backend lists, in listing order.
AllNames == <<Name_d, Name_f>>
\* The directories of the backend: the login directory and d inside it.
Dirs == {<<>>, <<Name_d>>}
\* The files of the backend before the first send: f in the login directory.
InitialFiles == (<<Name_f>> :> <<"a", "b">>)
\* The files of a backend whose directory d holds a file already.
ListedFiles == (<<Name_d, Name_f>> :> <<"c">>) @@ InitialFiles
\* The accounts the backend accepts.
Accounts == {<< <<"u">>, <<"p">> >>}

Reply220 == <<"2", "2", "0", " ", "r", "e", "a", "d", "y">>
Reply230 == <<"2", "3", "0", " ", "l", "o", "g", "g", "e", "d", " ", "i", "n">>
Reply250 == <<"2", "5", "0", " ", "o", "k", "a", "y">>
Reply226 == <<"2", "2", "6", " ", "T", "r", "a", "n", "s", "f", "e", "r", " ",
              "c", "o", "m", "p", "l", "e", "t", "e", ".">>
Reply421 == <<"4", "2", "1", " ", "b", "u", "s", "y">>
Reply426 == <<"4", "2", "6", " ", "a", "b", "o", "r", "t", "e", "d">>
Reply530 == <<"5", "3", "0", " ", "L", "o", "g", "i", "n", " ",
              "i", "n", "c", "o", "r", "r", "e", "c", "t", ".">>
Reply550 == <<"5", "5", "0", " ", "n", "o", " ", "s", "u", "c", "h">>
\* The replies a server completes a transfer with.
CompletionReplies == {Reply226, Reply250}

\* ftplib.FTP(): an object with no socket yet.
NewFTP == [state |-> "new", peer |-> None, user |-> None, cwd |-> <<>>,
           closes |-> 0, cmds |-> <<>>]

\* The names of a path argument, without the empty ones and '.'.
RECURSIVE DropDots(_)
DropDots(names) ==
    IF names = <<>> THEN <<>>
    ELSE (IF Head(names) \in {<<>>, <<".">>} THEN <<>> ELSE <<Head(names)>>)
         \o DropDots(Tail(names))

\* The place a path argument names on the server: from the root when it
\* starts with '/', from the working directory otherwise.
Resolve(cwd, arg) ==
    (IF arg # <<>> /\ arg[1] = "/" THEN <<>> ELSE cwd) \o DropDots(SplitOn(arg, "/"))

\* The lines of a directory listing: a type mark for LIST, bare names for NLST.
RECURSIVE ListingLines(_, _, _, _)
ListingLines(names, dir, fs, long) ==
    IF names = <<>> THEN <<>>
    ELSE LET n == Head(names)
             here == dir \o <<n>>
             mark == IF ~long THEN <<>>
                     ELSE IF here \in Dirs THEN <<"d", " ">> ELSE <<"-", " ">>
         IN (IF here \in Dirs \/ here \in DOMAIN fs
             THEN mark \o n \o <<"\r", "\n">> ELSE <<>>)
            \o ListingLines(Tail(names), dir, fs, long)

\* Every way recv can cut the data of a transfer into non-empty chunks.
RECURSIVE Chunkings(_)
Chunkings(data) ==
    IF data = <<>> THEN {<<>>}
    ELSE UNION {{<<Take(data, k)>> \o rest : rest \in Chunkings(SliceFrom(data, k))} :
                   k \in 1..Len(data)}

\* The chunk sequences an aborted transfer delivers: a strict part of the data.
PartialChunkings(data) ==
    UNION {Chunkings(Take(data, k)) : k \in 0..(Len(data) - 1)}

Sent(cn, cmd) == [cn EXCEPT !.cmds = Append(@, cmd)]

\* FTP.connect(host, port, timeout): the socket is opened, then the greeting
\* is read; a port that is not positive means the default port.
ftp_connect(cn, host, port) ==
    LET opened == [cn EXCEPT !.state = "connected",
                             !.peer = [host |-> host,
                                       port |-> IF port # None /\ port.val > 0
                                                THEN port.val ELSE 21]]
    IN {[res |-> Raise("socket.error"), cn |-> cn],
        [res |-> RaiseReply("error_temp", Reply421), cn |-> opened],
        [res |-> Ok(Reply220), cn |-> opened]}

\* FTP.login(user, passwd)
ftp_login(cn, user, passwd) ==
    IF cn.state # "connected" THEN {[res |-> Raise("AttributeError"), cn |-> cn]}
    ELSE LET sent == Sent(Sent(cn, <<"U", "S", "E", "R", " ">> \o user),
                          <<"P", "A", "S", "S", " ">> \o passwd)
         IN {[res |-> Raise("socket.error"), cn |-> cn]}
            \cup (IF <<user, passwd>> \in Accounts
                  THEN {[res |-> Ok(Reply230),
                         cn |-> [sent EXCEPT !.user = PyTuple(<<user, passwd>>)]]}
                  ELSE {[res |-> RaiseReply("error_perm", Reply530), cn |-> sent]})

\* FTP.cwd(dirname): '' is sent as '.'.
ftp_cwd(cn, dirname) ==
    IF cn.state # "connected" THEN {[res |-> Raise("AttributeError"), cn |-> cn]}
    ELSE LET arg == IF dirname = <<>> THEN <<".">> ELSE dirname
             sent == Sent(cn, CWD \o <<" ">> \o arg)
             target == Resolve(cn.cwd, arg)
         IN {[res |-> Raise("socket.error"), cn |-> cn]}
            \cup (IF target \in Dirs
                  THEN {[res |-> Ok(Reply250), cn |-> [sent EXCEPT !.cwd = target]]}
                  ELSE {[res |-> RaiseReply("error_perm", Reply550), cn |-> sent]})

\* The verb and the argument of a command line.
CmdVerb(cmd) == Take(cmd, FindSep(cmd, " "))
CmdArg(cmd) == SliceFrom(cmd, FindSep(cmd, " ") + 1)

\* FTP.retrbinary(cmd, callback): the chunks handed to the callback, in
\* order, and the completion reply or the exception.
ftp_retrbinary(cn, cmd, fs) ==
    IF cn.state # "connected"
    THEN {[res |-> Raise("AttributeError"), cn |-> cn, chunks |-> <<>>]}
    ELSE
      LET sent == Sent(cn, cmd)
          verb == CmdVerb(cmd)
          target == Resolve(cn.cwd, CmdArg(cmd))
          found == IF verb \in {LIST, NLST} THEN TRUE
                   ELSE verb = RETR /\ target \in DOMAIN fs
          data == IF verb \in {LIST, NLST}
                  THEN ListingLines(AllNames, target, fs, verb = LIST)
                  ELSE IF found THEN fs[target] ELSE <<>>
      IN {[res |-> Raise("socket.error"), cn |-> cn, chunks |-> <<>>]}
         \cup (IF ~found
               THEN {[res |-> RaiseReply("error_perm", Reply550), cn |-> sent,
                      chunks |-> <<>>]}
               ELSE {[res |-> Ok(reply), cn |-> sent, chunks |-> ch] :
                        reply \in CompletionReplies, ch \in Chunkings(data)}
                    \cup {[res |-> RaiseReply("error_temp", Reply426), cn |-> sent,
                           chunks |-> ch] : ch \in PartialChunkings(data)})

\* FTP.storbinary(cmd, fp): fp is read from its cursor to its end and the
\* bytes are stored under the command's argument; an aborted transfer leaves
\* a strict part of them.
ftp_storbinary(cn, cmd, fp, fs) ==
    IF cn.state # "connected"
    THEN {[res |-> Raise("AttributeError"), cn |-> cn, fs |-> fs]}
    ELSE
      LET sent == Sent(cn, cmd)
          arg == CmdArg(cmd)
          target == Resolve(cn.cwd, arg)
          data == BufRead(fp)
          allowed == /\ CmdVerb(cmd) = STOR
                     /\ target # <<>>
                     /\ target \notin Dirs
                     /\ SubSeq(target, 1, Len(target) - 1) \in Dirs
      IN {[res |-> Raise("socket.error"), cn |-> cn, fs |-> fs]}
         \cup (IF ~allowed
               THEN {[res |-> RaiseReply("error_perm", Reply550), cn |-> sent,
                      fs |-> fs]}
               ELSE {[res |-> Ok(reply), cn |-> sent, fs |-> (target :> data) @@ fs] :
                        reply \in CompletionReplies}
                    \cup {[res |-> RaiseReply("error_temp", Reply426), cn |-> sent,
                           fs |-> (target :> Take(data, k)) @@ fs] :
                             k \in 0..(Len(data) - 1)})

\* FTP.close(): drops the socket; closing twice is allowed.
ftp_close(cn) == [cn EXCEPT !.state = "closed", !.closes = @ + 1]

(***************************************************************************)
(* The requests a caller sends                                             *)
(***************************************************************************)

\* How many send calls, one after the other, a sequence of sends holds.
MaxSends == 2

Url(rest) == <<"f", "t", "p">> \o SchemeSep \o rest

Urls ==
    {Url(<<"h", "/", "d", "/", "f">>),
     Url(<<"h", "/", "f">>),
     Url(<<"h", "/", "d">>),
     Url(<<"h", ":", "2", "1", "/">>),
     Url(<<"h">>)}

BasicHeader(user, password) ==
    PyStr(Basic \o <<" ">> \o B64Encode(user \o <<":">> \o password))

\* The (user, password) pairs callers put in a Basic header: one the backend
\* accepts, one whose password holds a colon, one the backend rejects.
Credentials ==
    {<< <<"u">>, <<"p">> >>,
     << <<"u">>, <<"p", ":", "q">> >>,
     << <<"u">>, <<"x">> >>}

\* No header, the well-formed Basic headers, and two headers of another
\* scheme ('basic' is not 'Basic').
AuthHeaders ==
    {None}
    \cup {BasicHeader(cr[1], cr[2]) : cr \in Credentials}
    \cup {PyStr(Digest \o <<" ", "a", "b", "c">>),
          PyStr(<<"b", "a", "s", "i", "c", " ">> \o B64Encode(<<"u", ":", "p">>))}

Multipart ==
    PyStr(<<"m", "u", "l", "t", "i", "p", "a", "r", "t", "/", "f", "o", "r", "m",
            "-", "d", "a", "t", "a", ";", " ", "b", "o", "u", "n", "d", "a", "r",
            "y", "=", "X">>)

NoBody == [kind |-> "none", parts |-> <<>>]
Parts(parts) == [kind |-> "multipart", parts |-> parts]

\* The bodies of an upload: one part (empty or not), two parts, none at all.
Uploads ==
    {[ctype |-> Multipart, body |-> Parts(<<[name |-> "file", data |-> <<"x", "y">>]>>)],
     [ctype |-> Multipart, body |-> Parts(<<[name |-> "file", data |-> <<>>]>>)],
     [ctype |-> Multipart, body |-> Parts(<<[name |-> "a", data |-> <<"x">>],
                                            [name |-> "b", data |-> <<"y">>]>>)],
     [ctype |-> None, body |-> NoBody]}

Methods == {LIST, NLST, RETR, STOR, GET}

Request(m, u, a, up) ==
    [method |-> m, url |-> u,
     headers |-> [Authorization |-> a, ContentType |-> up.ctype],
     body |-> up.body]

\* The prepared requests; only an upload carries a body.
Requests ==
    {Request(m, u, a, [ctype |-> None, body |-> NoBody]) :
        m \in Methods \ {STOR}, u \in Urls, a \in AuthHeaders}
    \cup {Request(STOR, u, a, up) : u \in Urls, a \in AuthHeaders, up \in Uploads}

UrlDirFile == Url(<<"h", "/", "d", "/", "f">>)
UrlFile == Url(<<"h", "/", "f">>)
UrlDir == Url(<<"h", "/", "d">>)
OnePart(bytes) ==
    [ctype |-> Multipart, body |-> Parts(<<[name |-> "file", data |-> bytes]>>)]
Bodiless == [ctype |-> None, body |-> NoBody]

\* The requests of a sequence of sends: uploads and downloads of the same
\* paths, and listings of the directory the uploads go to.
SeqRequests ==
    {Request(STOR, u, None, OnePart(b)) :
        u \in {UrlDirFile, UrlFile}, b \in {<<"x", "y">>, <<>>}}
    \cup {Request(RETR, u, None, Bodiless) : u \in {UrlDirFile, UrlFile}}
    \cup {Request(LIST, UrlDir, None, Bodiless),
          Request(NLST, UrlDir, BasicHeader(<<"u">>, <<"p">>), Bodiless)}

\* The requests of callers that run side by side: one of each verb, the
\* NLST one with credentials.
FewRequests ==
    {Request(LIST, UrlDir, None, Bodiless),
     Request(NLST, UrlDir, BasicHeader(<<"u">>, <<"p">>), Bodiless),
     Request(RETR, UrlFile, None, Bodiless),
     Request(STOR, UrlDirFile, None, OnePart(<<"x">>))}

\* The requests of a run of sends about directory d: its listings, and a
\* download and an upload of the file in it.
ListingRequests ==
    {Request(LIST, UrlDir, None, Bodiless),
     Request(NLST, UrlDir, BasicHeader(<<"u">>, <<"p">>), Bodiless),
     Request(RETR, UrlDirFile, None, Bodiless),
     Request(STOR, UrlDirFile, None, OnePart(<<>>))}

\* What a scenario lets its callers send, and how many sends it holds: one
\* send, a bounded run of sends one after the other, or two sends side by side.
RequestsIn(s) ==
    CASE s = "single" -> Requests
      [] s = "sequence" -> SeqRequests
      [] s = "listing" -> ListingRequests
      [] OTHER -> FewRequests
\* The files the backend of a scenario starts with.
FilesIn(s) == IF s = "listing" THEN ListedFiles ELSE InitialFiles
SendsIn(s) ==
    CASE s = "single" -> 1
      [] s \in {"sequence", "listing"} -> MaxSends
      [] OTHER -> 2

(***************************************************************************)
(* State                                                                   *)
(***************************************************************************)

VARIABLES
    pc,         \* thread -> where its send call stands
    call,       \* thread -> the locals of its send call
    conn,       \* adapter -> self.conn: an index into conns, 0 before the first send
    conns,      \* every ftplib.FTP object created, in creation order
    files,      \* the backend's files: path -> bytes
    history,    \* the send calls that have ended, in the order they ended
    adapterOf,  \* thread -> the adapter it calls send on
    scenario    \* "single": one send of any request; "sequence", "listing":
                \* several sends in a row; "separate", "shared": two side by side

vars == <<pc, call, conn, conns, files, history, adapterOf, scenario>>

NoOutcome == [kind |-> "none"]
Returned(response) == [kind |-> "response", val |-> response]
Raised(r) == [kind |-> "raise", exc |-> r.exc, reply |-> r.reply]

\* The locals of a send call before its first line has run.
NoCall ==
    [req |-> None, auth |-> None, host |-> <<>>, port |-> None, path |-> <<>>,
     mine |-> 0, used |-> {}, trace |-> <<>>, handler |-> "none", data |-> NewBuffer, upload |-> <<>>, filename |-> <<>>,
     chunks |-> <<>>, code |-> <<>>, reply |-> None, response |-> None,
     outcome |-> NoOutcome]

\* The callers a behaviour may hold; Init says which of them it does.
Threads == {"t1", "t2"}

\* Thread t stands at label.
At(t, label) == t \in DOMAIN pc /\ pc[t] = label

\* self.conn as thread t reads it.
Self(t) == conn[adapterOf[t]]

\* FTPAdapter.__init__: the dispatch table, method -> the handler's first step.
func_table ==
    (LIST :> "list_cwd") @@ (RETR :> "retr_retrbinary")
    @@ (STOR :> "stor_parse") @@ (NLST :> "nlst_cwd")

InitWith(threads, adapter, s) ==
    /\ scenario = s
    /\ pc = [t \in threads |-> "idle"]
    /\ call = [t \in threads |-> NoCall]
    /\ adapterOf = adapter
    /\ conn = [a \in {adapter[t] : t \in threads} |-> 0]
    /\ conns = <<>>
    /\ files = FilesIn(s)
    /\ history = <<>>

\* One caller, one adapter.
Init == InitWith({"t1"}, [t \in {"t1"} |-> "a1"], "single")

\* One caller, one adapter, several sends one after the other.
InitSeq == InitWith({"t1"}, [t \in {"t1"} |-> "a1"], "sequence")

\* One caller, one adapter, several sends one after the other, against a
\* backend whose directory d is not empty.
InitListing == InitWith({"t1"}, [t \in {"t1"} |-> "a1"], "listing")

\* Two callers, each with an adapter of its own.
InitSeparate == InitWith(Threads, ("t1" :> "a1") @@ ("t2" :> "a2"), "separate")

\* Two callers of one adapter.
InitShared == InitWith(Threads, [t \in Threads |-> "a1"], "shared")

(***************************************************************************)
(* How a send call ends                                                    *)
(***************************************************************************)

\* The call of thread t ends with locals c and the given outcome.
End(t, c, outcome) ==
    LET final == [c EXCEPT !.outcome = outcome] IN
    /\ call' = [call EXCEPT ![t] = final]
    /\ pc' = [pc EXCEPT ![t] = "done"]
    /\ history' = Append(history, [thread |-> t, call |-> final])

\* The call of thread t goes on at label next with locals c.
Goto(t, c, next) ==
    /\ call' = [call EXCEPT ![t] = c]
    /\ pc' = [pc EXCEPT ![t] = next]
    /\ UNCHANGED history

\* The connection self.conn names becomes cn (nothing when self.conn is unset).
SetConn(t, cn) == conns' = [conns EXCEPT ![Self(t)] = cn]

\* The locals after a statement of thread t has used self.conn: the
\* connection it acted on and the statement are noted.
Using(t) == [call[t] EXCEPT !.used = @ \cup {Self(t)}, !.trace = Append(@, pc[t])]

(***************************************************************************)
(* FTPAdapter.send                                                         *)
(***************************************************************************)

InFlight == {t \in DOMAIN pc : pc[t] \notin {"idle", "done"}}

\* A mutation: without a header, the credentials of the send before are used.
SendExtractKeepsAuth(t) ==
    /\ t \in DOMAIN pc
    /\ pc[t] \in {"idle", "done"}
    /\ Len(history) + Cardinality(InFlight) < SendsIn(scenario)
    /\ \E request \in RequestsIn(scenario) :
         LET auth == get_username_password_from_header(request)
             kept == IF auth.ok /\ auth.val = None /\ history # <<>>
                     THEN history[Len(history)].call.auth ELSE auth.val
             ep == get_host_and_path_from_url(request)
             c == [NoCall EXCEPT !.req = request]
         IN IF ~auth.ok THEN End(t, c, Raised(auth))
            ELSE IF ~ep.ok THEN End(t, [c EXCEPT !.auth = kept], Raised(ep))
            ELSE Goto(t, [c EXCEPT !.auth = kept, !.host = ep.val.host,
                                   !.port = ep.val.port, !.path = ep.val.path],
                      "new")
    /\ UNCHANGED <<conn, conns, files, adapterOf, scenario>>

\* Lines 96-102: a caller enters send with a request; the credentials and
\* the endpoint are taken from it, and either may raise.
send_extract(t) ==
    /\ t \in DOMAIN pc
    /\ pc[t] \in {"idle", "done"}
    /\ Len(history) + Cardinality(InFlight) < SendsIn(scenario)
    /\ \E request \in RequestsIn(scenario) :
         LET auth == get_username_password_from_header(request)
             ep == get_host_and_path_from_url(request)
             c == [NoCall EXCEPT !.req = request]
         IN IF ~auth.ok THEN End(t, c, Raised(auth))
            ELSE IF ~ep.ok THEN End(t, [c EXCEPT !.auth = auth.val], Raised(ep))
            ELSE Goto(t, [c EXCEPT !.auth = auth.val, !.host = ep.val.host,
                                   !.port = ep.val.port, !.path = ep.val.path],
                      "new")
    /\ UNCHANGED <<conn, conns, files, adapterOf, scenario>>

\* A mutation: conn is an attribute of the class, one field for every adapter.
SendNewClassField(t) ==
    /\ At(t, "new")
    /\ conns' = Append(conns, NewFTP)
    /\ conn' = [a \in DOMAIN conn |-> Len(conns) + 1]
    /\ Goto(t, [call[t] EXCEPT !.mine = Len(conns) + 1], "connect")
    /\ UNCHANGED <<files, adapterOf, scenario>>

\* Line 105: self.conn = ftplib.FTP()
send_new(t) ==
    /\ At(t, "new")
    /\ conns' = Append(conns, NewFTP)
    /\ conn' = [conn EXCEPT ![adapterOf[t]] = Len(conns) + 1]
    /\ Goto(t, [call[t] EXCEPT !.mine = Len(conns) + 1], "connect")
    /\ UNCHANGED <<files, adapterOf, scenario>>

\* A mutation: a connect that raised is tried again.
SendConnectRetries(t) ==
    /\ At(t, "connect")
    /\ \E o \in ftp_connect(conns[Self(t)], call[t].host, call[t].port) :
         /\ SetConn(t, o.cn)
         /\ IF o.res.ok
            THEN Goto(t, Using(t), IF call[t].auth = None THEN "dispatch" ELSE "login")
            ELSE Goto(t, Using(t), "connect")
    /\ UNCHANGED <<conn, files, adapterOf, scenario>>

\* Lines 106-108: self.conn.connect(host, port, timeout), then the test of auth.
send_connect(t) ==
    /\ At(t, "connect")
    /\ \E o \in ftp_connect(conns[Self(t)], call[t].host, call[t].port) :
         /\ SetConn(t, o.cn)
         /\ IF o.res.ok
            THEN Goto(t, Using(t), IF call[t].auth = None THEN "dispatch" ELSE "login")
            ELSE End(t, Using(t), Raised(o.res))
    /\ UNCHANGED <<conn, files, adapterOf, scenario>>

\* Line 109: self.conn.login(auth[0], auth[1])
send_login(t) ==
    /\ At(t, "login")
    /\ \E o \in ftp_login(conns[Self(t)], call[t].auth.val[1], call[t].auth.val[2]) :
         /\ SetConn(t, o.cn)
         /\ IF o.res.ok THEN Goto(t, Using(t), "dispatch")
            ELSE End(t, Using(t), Raised(o.res))
    /\ UNCHANGED <<conn, files, adapterOf, scenario>>

\* Line 112: the lookup of request.method in func_table, and the call.
send_dispatch(t) ==
    /\ At(t, "dispatch")
    /\ IF call[t].req.method \in DOMAIN func_table
       THEN Goto(t, [call[t] EXCEPT !.handler = func_table[call[t].req.method]],
                 func_table[call[t].req.method])
       ELSE End(t, call[t], Raised(Raise("KeyError")))
    /\ UNCHANGED <<conn, conns, files, adapterOf, scenario>>

(***************************************************************************)
(* FTPAdapter.list and FTPAdapter.nlst: the same statements, with the      *)
(* command word LIST or NLST                                               *)
(***************************************************************************)

\* A mutation: data is one buffer kept across calls, not a new StringIO.
ListingCwdKeepsBuffer(t, here, next) ==
    /\ At(t, here)
    /\ \E o \in ftp_cwd(conns[Self(t)], call[t].path) :
         /\ SetConn(t, o.cn)
         /\ LET c == [Using(t) EXCEPT
                         !.data = IF history = <<>> THEN NewBuffer
                                  ELSE history[Len(history)].call.data]
            IN IF o.res.ok THEN Goto(t, c, next) ELSE End(t, c, Raised(o.res))
    /\ UNCHANGED <<conn, files, adapterOf, scenario>>

\* data = StringIO(); self.conn.cwd(path)
listing_cwd(t, here, next) ==
    /\ At(t, here)
    /\ \E o \in ftp_cwd(conns[Self(t)], call[t].path) :
         /\ SetConn(t, o.cn)
         /\ LET c == [Using(t) EXCEPT !.data = NewBuffer] IN
            IF o.res.ok THEN Goto(t, c, next) ELSE End(t, c, Raised(o.res))
    /\ UNCHANGED <<conn, files, adapterOf, scenario>>

\* code = self.conn.retrbinary(cmd, data_callback_factory(data))
transfer_retrbinary(t, here, next, cmd) ==
    /\ At(t, here)
    /\ \E o \in ftp_retrbinary(conns[Self(t)], cmd, files) :
         /\ SetConn(t, o.cn)
         /\ LET c == [Using(t) EXCEPT
                         !.data = data_callback(@, o.chunks),
                         !.chunks = o.chunks,
                         !.reply = IF o.res.ok THEN PyStr(o.res.val)
                                   ELSE IF o.res.reply # <<>> THEN PyStr(o.res.reply)
                                   ELSE None,
                         !.code = IF o.res.ok THEN o.res.val ELSE @]
            IN IF o.res.ok THEN Goto(t, c, next) ELSE End(t, c, Raised(o.res))
    /\ UNCHANGED <<conn, files, adapterOf, scenario>>

\* A mutation: the connection is closed when building the response raises.
HandlerBuildClosesOnRaise(t, here, next, results) ==
    /\ At(t, here)
    /\ \E r \in results :
         IF r.ok
         THEN Goto(t, [call[t] EXCEPT !.response = r.val], next) /\ UNCHANGED conns
         ELSE End(t, call[t], Raised(r)) /\ SetConn(t, ftp_close(conns[Self(t)]))
    /\ UNCHANGED <<conn, files, adapterOf, scenario>>

\* response = build_text_response(request, data, code), or the binary one.
handler_build(t, here, next, results) ==
    /\ At(t, here)
    /\ \E r \in results :
         IF r.ok THEN Goto(t, [call[t] EXCEPT !.response = r.val], next)
         ELSE End(t, call[t], Raised(r))
    /\ UNCHANGED <<conn, conns, files, adapterOf, scenario>>

\* A mutation: the handler closes the connection its own send opened, kept
\* in a local, whatever self.conn names by then.
HandlerCloseOwn(t, here) ==
    /\ At(t, here)
    /\ conns' = [conns EXCEPT ![call[t].mine] = ftp_close(@)]
    /\ End(t, [call[t] EXCEPT !.used = @ \cup {call[t].mine}, !.trace = Append(@, pc[t])],
           Returned(call[t].response))
    /\ UNCHANGED <<conn, files, adapterOf, scenario>>

\* self.conn.close(); return response
handler_close_return(t, here) ==
    /\ At(t, here)
    /\ SetConn(t, ftp_close(conns[Self(t)]))
    /\ End(t, Using(t), Returned(call[t].response))
    /\ UNCHANGED <<conn, files, adapterOf, scenario>>

list_cwd(t) == listing_cwd(t, "list_cwd", "list_retrbinary")
\* A mutation: the path is given to LIST as its argument.
ListRetrbinaryWithPath(t) ==
    transfer_retrbinary(t, "list_retrbinary", "list_build",
                        LIST \o <<" ">> \o call[t].path)
list_retrbinary(t) == transfer_retrbinary(t, "list_retrbinary", "list_build", LIST)
list_build(t) ==
    handler_build(t, "list_build", "list_close",
                  build_text_response(call[t].req, call[t].data, call[t].code))
list_close(t) == handler_close_return(t, "list_close")

nlst_cwd(t) == listing_cwd(t, "nlst_cwd", "nlst_retrbinary")
nlst_retrbinary(t) == transfer_retrbinary(t, "nlst_retrbinary", "nlst_build", NLST)
nlst_build(t) ==
    handler_build(t, "nlst_build", "nlst_close",
                  build_text_response(call[t].req, call[t].data, call[t].code))
nlst_close(t) == handler_close_return(t, "nlst_close")

(***************************************************************************)
(* FTPAdapter.retr                                                         *)
(***************************************************************************)

\* A mutation: only the last name of the path is given to RETR.
RetrRetrbinaryBasename(t) ==
    transfer_retrbinary(t, "retr_retrbinary", "retr_build",
                        RETR \o <<" ">> \o os_path_split(call[t].path)[2])

\* data = BytesIO(); code = self.conn.retrbinary('RETR ' + path, callback)
retr_retrbinary(t) ==
    transfer_retrbinary(t, "retr_retrbinary", "retr_build",
                        RETR \o <<" ">> \o call[t].path)
retr_build(t) ==
    handler_build(t, "retr_build", "retr_close",
                  build_binary_response(call[t].req, call[t].data, call[t].code))
retr_close(t) == handler_close_return(t, "retr_close")

(***************************************************************************)
(* FTPAdapter.stor                                                         *)
(***************************************************************************)

\* Lines 167-170: the upload is taken from the body, the path is split.
stor_parse(t) ==
    /\ At(t, "stor_parse")
    /\ \E r \in parse_multipart_files(call[t].req) :
         IF r.ok
         THEN LET parts == os_path_split(call[t].path) IN
              Goto(t, [call[t] EXCEPT !.upload = r.val.content, !.data = r.val,
                                      !.path = parts[1], !.filename = parts[2]],
                   "stor_cwd")
         ELSE End(t, call[t], Raised(r))
    /\ UNCHANGED <<conn, conns, files, adapterOf, scenario>>

\* Line 173: self.conn.cwd(path)
stor_cwd(t) ==
    /\ At(t, "stor_cwd")
    /\ \E o \in ftp_cwd(conns[Self(t)], call[t].path) :
         /\ SetConn(t, o.cn)
         /\ IF o.res.ok THEN Goto(t, Using(t), "stor_storbinary")
            ELSE End(t, Using(t), Raised(o.res))
    /\ UNCHANGED <<conn, files, adapterOf, scenario>>

\* Line 174: code = self.conn.storbinary('STOR ' + filename, data)
stor_storbinary(t) ==
    /\ At(t, "stor_storbinary")
    /\ \E o \in ftp_storbinary(conns[Self(t)], STOR \o <<" ">> \o call[t].filename,
                               call[t].data, files) :
         /\ SetConn(t, o.cn)
         /\ files' = o.fs
         /\ LET c == [Using(t) EXCEPT
                         !.reply = IF o.res.ok THEN PyStr(o.res.val)
                                   ELSE IF o.res.reply # <<>> THEN PyStr(o.res.reply)
                                   ELSE None,
                         !.code = IF o.res.ok THEN o.res.val ELSE @]
            IN IF o.res.ok THEN Goto(t, c, "stor_close") ELSE End(t, c, Raised(o.res))
    /\ UNCHANGED <<conn, adapterOf, scenario>>

\* Line 177: self.conn.close()
stor_close(t) ==
    /\ At(t, "stor_close")
    /\ SetConn(t, ftp_close(conns[Self(t)]))
    /\ Goto(t, Using(t), "stor_build")
    /\ UNCHANGED <<conn, files, adapterOf, scenario>>

\* Lines 179-181: response = build_binary_response(request, BytesIO(), code)
stor_build(t) ==
    /\ At(t, "stor_build")
    /\ \E r \in build_binary_response(call[t].req, NewBuffer, call[t].code) :
         IF r.ok THEN End(t, [call[t] EXCEPT !.response = r.val], Returned(r.val))
         ELSE End(t, call[t], Raised(r))
    /\ UNCHANGED <<conn, conns, files, adapterOf, scenario>>

(***************************************************************************)
(* The specification                                                       *)
(***************************************************************************)

Next ==
    \E t \in Threads :
        \/ send_extract(t)
        \/ send_new(t)
        \/ send_connect(t)
        \/ send_login(t)
        \/ send_dispatch(t)
        \/ list_cwd(t)
        \/ list_retrbinary(t)
        \/ list_build(t)
        \/ list_close(t)
        \/ nlst_cwd(t)
        \/ nlst_retrbinary(t)
        \/ nlst_build(t)
        \/ nlst_close(t)
        \/ retr_retrbinary(t)
        \/ retr_build(t)
        \/ retr_close(t)
        \/ stor_parse(t)
        \/ stor_cwd(t)
        \/ stor_storbinary(t)
        \/ stor_close(t)
        \/ stor_build(t)

Spec == Init /\ [][Next]_vars

SpecSeq == InitSeq /\ [][Next]_vars

SpecListing == InitListing /\ [][Next]_vars

SpecSeparate == InitSeparate /\ [][Next]_vars

SpecShared == InitShared /\ [][Next]_vars

(***************************************************************************)
(* What the claims speak of                                                *)
(***************************************************************************)

\* The send calls that have ended.
Ended == {history[i].call : i \in 1..Len(history)}

\* The send calls that have started, ended or not.
Started == {call[t] : t \in {u \in DOMAIN pc : call[u].req # None}} \cup Ended

HasVerb(cn, words) == \E i \in 1..Len(cn.cmds) : CmdVerb(cn.cmds[i]) \in words

\* The first token of a reply line, as text.
ReplyCode(reply) == Take(reply, FindSep(reply, " "))

\* The Authorization header carries a scheme token and it is not 'Basic'.
OtherScheme(request) ==
    /\ request.headers.Authorization # None
    /\ Split(request.headers.Authorization.val) # <<>>
    /\ Split(request.headers.Authorization.val)[1] # Basic

(***************************************************************************)
(* C1                                                                      *)
(***************************************************************************)

\* C1: for every send with a supported method, once its handler has run
\* (to its end or to a failure at any of its steps) the connection that send
\* opened has been closed exactly once.
C1_ClosedExactlyOnce ==
    \A c \in Ended :
        (c.req.method \in DOMAIN func_table /\ c.handler # "none")
            => conns[c.mine].closes = 1 /\ conns[c.mine].state = "closed"

(***************************************************************************)
(* C2                                                                      *)
(***************************************************************************)

\* C2: a send whose method is not in the dispatch table and that ends with
\* the lookup error has run no handler, has issued no cwd or transfer
\* command, and leaves the connection it opened closed.
C2_UnsupportedLeavesNothingOpen ==
    \A c \in Ended :
        (c.req.method \notin DOMAIN func_table /\ c.mine # 0
            /\ c.outcome.kind = "raise" /\ c.outcome.exc = "KeyError")
            => /\ c.handler = "none"
               /\ ~HasVerb(conns[c.mine], {CWD, LIST, NLST, RETR, STOR})
               /\ conns[c.mine].state # "connected"

(***************************************************************************)
(* C3                                                                      *)
(***************************************************************************)

\* C3: for every request with no Authorization header, extraction returns
\* no credentials and, by the time the verb handler is entered, a login has
\* been performed on the connection the send opened.
C3_AnonymousLogin ==
    \A c \in Started :
        (c.req.headers.Authorization = None /\ c.handler # "none")
            => /\ c.auth = None
               /\ HasVerb(conns[c.mine], {<<"U", "S", "E", "R">>})

(***************************************************************************)
(* C4                                                                      *)
(***************************************************************************)

\* C4: for every header 'Basic ' + base64(user + ':' + password), extraction
\* returns exactly (user, password), also when the password holds colons.
C4_ExactCredentials ==
    \A c \in Started : \A cr \in Credentials :
        c.req.headers.Authorization = BasicHeader(cr[1], cr[2])
            => c.auth = PyTuple(cr)

(***************************************************************************)
(* C5                                                                      *)
(***************************************************************************)

\* C5: a send whose Authorization header carries a scheme token other than
\* 'Basic' ends at once with AuthError: no FTP object has been created, no
\* connection used, no handler entered.
C5_OtherSchemeRaisesFirst ==
    \A t \in DOMAIN pc :
        (call[t].req # None /\ OtherScheme(call[t].req))
            => /\ pc[t] = "done"
               /\ call[t].outcome = Raised(Raise("AuthError"))
               /\ call[t].mine = 0
               /\ call[t].used = {}
               /\ call[t].handler = "none"
               /\ conn[adapterOf[t]] = 0
               /\ conns = <<>>

\* C5's case: a send with a Digest header has ended.
C5_Witness ==
    \E c \in Ended :
        /\ OtherScheme(c.req)
        /\ Take(c.req.headers.Authorization.val, 6) = Digest
        /\ c.outcome.kind = "raise"

(***************************************************************************)
(* C6                                                                      *)
(***************************************************************************)

\* C6: the status code of every Response is the integer value of the first
\* token of the reply the transfer returned, not the token's text.
C6_StatusIsInteger ==
    \A c \in Started :
        c.response # None
            => c.response.status_code = PyInt(ParseInt(ReplyCode(c.code)))

(***************************************************************************)
(* C7                                                                      *)
(***************************************************************************)

\* C7: when a LIST, NLST or RETR send returns a Response, its body is the
\* chunks handed to the callback, joined in the order they came, and its
\* cursor is at 0; with no chunk at all the body is empty and the status is
\* the code of the server's completion reply, a 2xx one.
C7_BodyIsChunksRewound ==
    \A c \in Ended :
        (c.req.method \in {LIST, NLST, RETR} /\ c.outcome.kind = "response")
            => /\ c.outcome.val.raw.content = Join(c.chunks)
               /\ c.outcome.val.raw.pos = 0
               /\ (c.chunks = <<>>
                     => /\ Len(c.outcome.val.raw.content) = 0
                        /\ c.outcome.val.status_code.val = ReplyCode(c.reply.val)
                        /\ c.reply.val[1] = "2")

\* C7's case: a listing that came in several chunks has been returned.
C7_Witness ==
    \E c \in Ended :
        /\ c.req.method = LIST
        /\ c.outcome.kind = "response"
        /\ Len(c.chunks) >= 2
        /\ c.outcome.val.raw.content = Join(c.chunks)

\* C7's boundary: the listing of the empty directory d has been returned.
C7_EmptyListing ==
    \E c \in Ended :
        /\ c.req.method \in {LIST, NLST}
        /\ c.outcome.kind = "response"
        /\ c.chunks = <<>>

(***************************************************************************)
(* C8                                                                      *)
(***************************************************************************)

\* The request is an upload whose body holds exactly one part.
OnePartUpload(request) ==
    /\ request.method = STOR
    /\ request.body.kind = "multipart"
    /\ Len(request.body.parts) = 1

\* C8: for a STOR to /d/f with a one-part body of bytes B: the commands the
\* handler has sent are CWD d and then, if it got that far, STOR f; once the
\* store has completed the backend holds exactly B as f in d; and the
\* Response returned has an empty body and the code of the store's reply.
C8_StorToDirFile ==
    \A c \in Started :
        (OnePartUpload(c.req) /\ c.req.url = UrlDirFile /\ c.handler # "none")
            => LET sent == SelectSeq(conns[c.mine].cmds,
                                     LAMBDA cmd : CmdVerb(cmd) \in {CWD, STOR, RETR, LIST, NLST})
                   B == c.req.body.parts[1].data
               IN /\ sent \in {<<>>, <<CWD \o <<" ", "d">> >>,
                               <<CWD \o <<" ", "d">>, STOR \o <<" ", "f">> >>}
                  /\ (c.reply # None /\ c.reply.val[1] = "2")
                        => /\ Len(sent) = 2
                           /\ <<Name_d, Name_f>> \in DOMAIN files
                           /\ files[<<Name_d, Name_f>>] = B
                  /\ c.outcome.kind = "response"
                        => /\ c.outcome.val.raw.content = <<>>
                           /\ c.outcome.val.status_code.val = ReplyCode(c.reply.val)

\* C8's case: an upload of x, y to /d/f has returned its Response.
C8_Witness ==
    \E c \in Ended :
        /\ OnePartUpload(c.req)
        /\ c.req.url = UrlDirFile
        /\ c.req.body.parts[1].data = <<"x", "y">>
        /\ c.outcome.kind = "response"
        /\ files[<<Name_d, Name_f>>] = <<"x", "y">>

(***************************************************************************)
(* C9                                                                      *)
(***************************************************************************)

\* C9: when a send that stored the bytes B of a one-part body at a url
\* returned a Response, and the next send is a RETR of the same url that
\* returns a Response, the body of that Response is B.
C9_StorThenRetr ==
    \A i \in 1..(Len(history) - 1) :
        LET s == history[i].call
            r == history[i + 1].call
        IN (/\ OnePartUpload(s.req)
            /\ s.outcome.kind = "response"
            /\ r.req.method = RETR
            /\ r.req.url = s.req.url
            /\ r.outcome.kind = "response")
              => BufRead(r.outcome.val.raw) = s.req.body.parts[1].data

\* C9's case: x, y was stored at /d/f and the next send retrieved /d/f.
C9_Witness ==
    /\ Len(history) >= 2
    /\ OnePartUpload(history[1].call.req)
    /\ history[1].call.req.url = UrlDirFile
    /\ history[1].call.req.body.parts[1].data = <<"x", "y">>
    /\ history[1].call.outcome.kind = "response"
    /\ history[2].call.req.method = RETR
    /\ history[2].call.req.url = UrlDirFile
    /\ history[2].call.outcome.kind = "response"

(***************************************************************************)
(* C10                                                                     *)
(***************************************************************************)

\* C10: whatever reply the server gave the transfer command of a send, 4xx
\* and 5xx included, the send has returned a Response whose status is that
\* reply's code (unless a response hook raised).
C10_ReplyCodesPassThrough ==
    \A c \in Ended :
        (c.reply # None /\ ~(c.outcome.kind = "raise" /\ c.outcome.exc = "HookError"))
            => /\ c.outcome.kind = "response"
               /\ c.outcome.val.status_code.val = ReplyCode(c.reply.val)

(***************************************************************************)
(* C11                                                                     *)
(***************************************************************************)

\* C11: when the callers each have an adapter of their own, every connect,
\* login, cwd, transfer and close a send performs is applied to the
\* connection that same send opened, never to one another send opened.
C11_SeparateAdaptersSelfContained ==
    \A c \in Started : c.used \subseteq {c.mine}

\* Two sends of different callers ran side by side (the second ended while
\* the first was past its connect), and both used a connection.
C11_Witness ==
    /\ Len(history) = 2
    /\ history[1].thread # history[2].thread
    /\ history[1].call.outcome.kind = "response"
    /\ history[2].call.outcome.kind = "response"
    /\ history[1].call.mine > history[2].call.mine
    /\ history[1].call.used # {}
    /\ history[2].call.used # {}

(***************************************************************************)
(* C12                                                                     *)
(***************************************************************************)

\* C12: nothing guards the connection field of an adapter two callers share.
\* Every step acts on the connection the field names when the step runs, so
\* once a later send has overwritten the field, the earlier send's commands
\* and its close go to the later send's connection and the connection the
\* earlier send opened is never touched again.
C12_OverwrittenNeverTouched ==
    [][\A i \in 1..Len(conns) :
          conns'[i] # conns[i] => \E a \in DOMAIN conn : conn[a] = i]_vars

\* Two sends on one adapter have ended; the LIST send connected its own
\* connection, the other send then overwrote the field, and the LIST
\* handler's cwd, LIST and close went to the other send's connection: the
\* LIST send's own connection took no command and is still open.
C12_Witness ==
    /\ InFlight = {}
    /\ \E i, j \in 1..Len(history) :
         LET A == history[i].call
             B == history[j].call
         IN /\ history[i].thread # history[j].thread
            /\ A.req.method = LIST /\ B.req.method # LIST
            /\ A.outcome.kind = "response"
            /\ A.mine # 0 /\ A.mine < B.mine
            /\ A.used = {A.mine, B.mine}
            /\ conns[A.mine].state = "connected"
            /\ conns[A.mine].cmds = <<>>
            /\ conns[A.mine].closes = 0
            /\ HasVerb(conns[B.mine], {LIST})
            /\ conns[B.mine].closes >= 1

(***************************************************************************)
(* C13                                                                     *)
(***************************************************************************)

\* What a LIST of directory d holds, given the backend's files.
ListingOfD(fs) == ListingLines(AllNames, <<Name_d>>, fs, TRUE)

\* The LIST sends of directory d that returned a Response, by place in history.
ListedD ==
    {i \in 1..Len(history) :
        /\ history[i].call.req.method = LIST
        /\ history[i].call.req.url = UrlDir
        /\ history[i].call.outcome.kind = "response"}

\* C13: while directory d lists as it did before the first send, every LIST
\* of d that one adapter returned, however many sends came before it, has
\* the same body, the listing of d, and two of them whose transfers the
\* server completed with the same reply carry the same status code: no
\* buffer, connection or working directory of an earlier send shows in a
\* later result.
C13_RepeatedListSameResult ==
    ListingOfD(files) = ListingOfD(FilesIn(scenario))
        => \A i, j \in ListedD :
              LET A == history[i].call
                  B == history[j].call
              IN /\ A.outcome.val.raw.content = B.outcome.val.raw.content
                 /\ A.outcome.val.raw.content = ListingOfD(files)
                 /\ A.outcome.val.raw.pos = B.outcome.val.raw.pos
                 /\ A.reply = B.reply
                        => A.outcome.val.status_code = B.outcome.val.status_code

\* Two LIST sends of the non-empty directory d, one after the other, have
\* both returned.
C13_Witness ==
    /\ Len(history) >= 2
    /\ {Len(history) - 1, Len(history)} \subseteq ListedD
    /\ Len(history[Len(history)].call.outcome.val.raw.content) > 0
    /\ history[1].call.mine # history[Len(history)].call.mine

(***************************************************************************)
(* C14                                                                     *)
(***************************************************************************)

IsPrefix(s, t) == Len(s) <= Len(t) /\ s = SubSeq(t, 1, Len(s))

\* The USER and PASS lines of a login with the credentials auth, none
\* without credentials.
LoginLines(auth) ==
    IF auth = None THEN <<>>
    ELSE << <<"U", "S", "E", "R", " ">> \o auth.val[1],
            <<"P", "A", "S", "S", " ">> \o auth.val[2] >>

\* The statements on self.conn of a send whose handler makes the given ones.
StepsOf(auth, steps) ==
    <<"connect">> \o (IF auth = None THEN <<>> ELSE <<"login">>) \o steps

\* C14: in every LIST and NLST send the statements on the connection come in
\* the order connect, login when the request has credentials, cwd to the
\* request's path, retrbinary of the bare word LIST or NLST, close; what
\* the server is sent is the login lines, 'CWD <path>' ('.' for the empty
\* path) and then the bare word, the cwd before it; and a closed connection
\* belongs to a send that has ended with close as its last statement.
C14_ListingOrder ==
    \A c \in Started :
        (c.req.method \in {LIST, NLST} /\ c.mine # 0)
            => LET word == c.req.method
                   steps == IF word = LIST
                            THEN <<"list_cwd", "list_retrbinary", "list_close">>
                            ELSE <<"nlst_cwd", "nlst_retrbinary", "nlst_close">>
                   all == StepsOf(c.auth, steps)
                   path == get_host_and_path_from_url(c.req).val.path
                   lines == LoginLines(c.auth)
                            \o << CWD \o <<" ">> \o (IF path = <<>> THEN <<".">> ELSE path),
                                  word >>
                   cn == conns[c.mine]
               IN /\ IsPrefix(c.trace, all)
                  /\ IsPrefix(cn.cmds, lines)
                  /\ cn.cmds # <<>> => cn.state # "new"
                  /\ cn.state = "closed"
                        => /\ c \in Ended
                           /\ c.trace = all
                           /\ cn.cmds = lines
                           /\ cn.closes = 1

\* An NLST send with credentials has gone through all five steps.
C14_Witness ==
    \E c \in Ended :
        /\ c.req.method = NLST
        /\ c.auth # None
        /\ c.outcome.kind = "response"
        /\ c.trace = <<"connect", "login", "nlst_cwd", "nlst_retrbinary", "nlst_close">>
        /\ Len(conns[c.mine].cmds) = 4
        /\ conns[c.mine].cmds[4] = NLST
        /\ conns[c.mine].state = "closed"

(***************************************************************************)
(* C15                                                                     *)
(***************************************************************************)

\* C15: in every RETR send no cwd is made and no CWD is sent: after connect
\* and the login, if any, the only statements are one retrbinary and the
\* close, and the one command sent after the login lines is 'RETR ' and the
\* url's whole path without its first '/'.
C15_RetrFullPathNoCwd ==
    \A c \in Started :
        (c.req.method = RETR /\ c.mine # 0)
            => LET all == StepsOf(c.auth, <<"retr_retrbinary", "retr_close">>)
                   whole == urlparse(c.req.url).path
                   lines == LoginLines(c.auth)
                            \o << RETR \o <<" ">> \o SliceFrom(whole, 1) >>
                   cn == conns[c.mine]
               IN /\ whole[1] = "/"
                  /\ IsPrefix(c.trace, all)
                  /\ IsPrefix(cn.cmds, lines)
                  /\ ~HasVerb(cn, {CWD})
                  /\ cn.state = "closed" => c.trace = all /\ cn.cmds = lines

\* A RETR send with credentials for a path with a directory in it has
\* ended: after the login lines the server was sent 'RETR d/f'.
C15_Witness ==
    \E c \in Ended :
        /\ c.req.method = RETR
        /\ c.req.url = UrlDirFile
        /\ c.auth # None
        /\ c.trace = <<"connect", "login", "retr_retrbinary">>
        /\ Len(conns[c.mine].cmds) = 3
        /\ conns[c.mine].cmds[3] = RETR \o <<" ", "d", "/", "f">>

(***************************************************************************)
(* C16                                                                     *)
(***************************************************************************)

\* How many of the statements of a trace are among the given ones.
Count(trace, steps) == Cardinality({i \in 1..Len(trace) : trace[i] \in steps})

\* How many of the lines a connection was sent start with one of the words.
CountVerb(cn, words) ==
    Cardinality({i \in 1..Len(cn.cmds) : CmdVerb(cn.cmds[i]) \in words})

WordUSER == <<"U", "S", "E", "R">>
WordPASS == <<"P", "A", "S", "S">>

TransferSteps ==
    {"list_retrbinary", "nlst_retrbinary", "retr_retrbinary", "stor_storbinary"}
CloseSteps == {"list_close", "nlst_close", "retr_close", "stor_close"}
FtplibErrors == {"socket.error", "error_temp", "error_perm"}

\* The credentials and the endpoint of the request can both be taken.
Extracts(request) ==
    /\ get_username_password_from_header(request).ok
    /\ get_host_and_path_from_url(request).ok

\* C16: nothing is tried twice. A send whose request gives credentials and
\* endpoint connects exactly once, any other send not at all; a send logs in
\* at most once and makes at most one transfer, and its connection is sent
\* at most one USER line and one transfer line. A send that ftplib failed
\* has ended with that exception as its outcome, the failed statement its
\* last, without a close after it; a rejected login in particular ends the
\* send with the 530 reply right after the login.
C16_NoRetries ==
    \A c \in Started :
        /\ Count(c.trace, {"connect"}) <= 1
        /\ Count(c.trace, {"login"}) <= 1
        /\ Count(c.trace, TransferSteps) <= 1
        /\ ~Extracts(c.req) => c.trace = <<>> /\ c.mine = 0 /\ c \in Ended
        /\ (Extracts(c.req) /\ c \in Ended) => Count(c.trace, {"connect"}) = 1
        /\ c.mine # 0
              => /\ CountVerb(conns[c.mine], {<<"U", "S", "E", "R">>}) <= 1
                 /\ CountVerb(conns[c.mine], {LIST, NLST, RETR, STOR}) <= 1
                 /\ (HasVerb(conns[c.mine], {WordPASS})
                        /\ conns[c.mine].user = None)
                       => /\ c \in Ended
                          /\ c.outcome = Raised(RaiseReply("error_perm", Reply530))
                          /\ c.trace = <<"connect", "login">>
        /\ (c.outcome.kind = "raise" /\ c.outcome.exc \in FtplibErrors)
              => /\ c \in Ended
                 /\ c.trace # <<>>
                 /\ c.trace[Len(c.trace)] \notin CloseSteps
                 /\ Count(c.trace, CloseSteps) = 0

\* A send whose login the server rejected has ended: it connected once,
\* sent USER once and made no further statement.
C16_Witness ==
    \E c \in Ended :
        /\ c.outcome = Raised(RaiseReply("error_perm", Reply530))
        /\ c.trace = <<"connect", "login">>
        /\ CountVerb(conns[c.mine], {WordUSER}) = 1
        /\ conns[c.mine].closes = 0

(***************************************************************************)
(* C17                                                                     *)
(***************************************************************************)

\* C17: for the url of every request a send is given, the empty path
\* included, get_host_and_path_from_url returns the url's host and port and
\* its path without one leading '/' when it has one, as it is otherwise.
C17_EndpointOfEveryUrl ==
    \A c \in Started :
        LET parsed == urlparse(c.req.url)
            ep == get_host_and_path_from_url(c.req)
        IN /\ ep.ok
           /\ ep.val.host = parsed.hostname
           /\ ep.val.port = parsed.port
           /\ ep.val.path = IF parsed.path # <<>> /\ parsed.path[1] = "/"
                            THEN SliceFrom(parsed.path, 1) ELSE parsed.path

(***************************************************************************)
(* C18                                                                     *)
(***************************************************************************)

\* C18: in a run of sends on one adapter, the connection of a send whose
\* request has no Authorization header is never sent USER or PASS and has
\* nobody logged in, whatever credentials the sends before it had; the
\* connection of a send with a header is sent only the user and password of
\* that header.
C18_CredentialsPerRequest ==
    \A c \in Started :
        c.mine # 0
          => LET header == c.req.headers.Authorization
                 cn == conns[c.mine]
                 own == get_username_password_from_header(c.req).val
             IN IF header = None
                THEN /\ ~HasVerb(cn, {WordUSER, WordPASS})
                     /\ cn.user = None
                     /\ Count(c.trace, {"login"}) = 0
                ELSE /\ cn.user \in {None, own}
                     /\ \A i \in 1..Len(cn.cmds) :
                           /\ CmdVerb(cn.cmds[i]) = WordUSER
                                 => CmdArg(cn.cmds[i]) = own.val[1]
                           /\ CmdVerb(cn.cmds[i]) = WordPASS
                                 => CmdArg(cn.cmds[i]) = own.val[2]

\* A send with credentials logged in and ended; the next send, without a
\* header, then ran to its response on a connection nobody logged in to.
C18_Witness ==
    /\ Len(history) = 2
    /\ history[1].call.req.headers.Authorization # None
    /\ history[1].call.mine # 0
    /\ conns[history[1].call.mine].user # None
    /\ history[2].call.req.headers.Authorization = None
    /\ history[2].call.outcome.kind = "response"
    /\ conns[history[2].call.mine].user = None

(***************************************************************************)
(* C19                                                                     *)
(***************************************************************************)

BuildSteps == {"list_build", "nlst_build", "retr_build"}

\* The send ended because building the response, the hooks included, raised.
BuildRaised(c) == c.outcome.kind = "raise" /\ c.outcome.exc = "HookError"

\* C19: a STOR send builds its response and runs the hooks on a connection
\* it has already closed; a LIST, NLST or RETR send does so with its
\* connection still open and closes it afterwards. So a send that ended
\* because the build or a hook raised has left its connection closed if it
\* is a STOR and open, never closed, if it is a LIST, NLST or RETR.
C19_CloseAgainstBuild ==
    /\ \A t \in DOMAIN pc :
          /\ pc[t] = "stor_build"
                => /\ conns[call[t].mine].state = "closed"
                   /\ call[t].trace[Len(call[t].trace)] = "stor_close"
          /\ pc[t] \in BuildSteps
                => /\ conns[call[t].mine].state = "connected"
                   /\ conns[call[t].mine].closes = 0
                   /\ Count(call[t].trace, CloseSteps) = 0
    /\ \A c \in Ended :
          /\ (c.req.method = STOR /\ c.handler # "none" /\ BuildRaised(c))
                => /\ conns[c.mine].state = "closed"
                   /\ conns[c.mine].closes = 1
          /\ (c.req.method \in {LIST, NLST, RETR} /\ c.handler # "none" /\ BuildRaised(c))
                => /\ conns[c.mine].state = "connected"
                   /\ conns[c.mine].closes = 0
          /\ (c.req.method \in {LIST, NLST, RETR} /\ c.outcome.kind = "response")
                => /\ conns[c.mine].state = "closed"
                   /\ c.trace[Len(c.trace)] \in CloseSteps

\* A hook raised in a STOR send and then in a LIST send: the first left its
\* connection closed, the second left its connection open.
C19_Witness ==
    /\ Len(history) = 2
    /\ history[1].call.req.method = STOR
    /\ BuildRaised(history[1].call)
    /\ conns[history[1].call.mine].state = "closed"
    /\ history[2].call.req.method = LIST
    /\ BuildRaised(history[2].call)
    /\ conns[history[2].call.mine].state = "connected"

====
